---- MODULE Spec2Model ----
(***************************************************************************)
(* Model of the SQLite-backed bookmark tree of bmconv                      *)
(* (src/src/model_sqlite.py, class ModelSQLite).                           *)
(*                                                                         *)
(* The three tables of the store are modelled as the rows the open         *)
(* connection sees (tree, folder, url), uncommitted rows included, and     *)
(* `files` holds what has been committed to each database file.  The       *)
(* sqlite3 module opens a transaction implicitly before the first          *)
(* INSERT/UPDATE/DELETE and keeps it open until conn.commit(); a           *)
(* statement that raises leaves the earlier statements of the transaction  *)
(* in place.  The cursor's row factory is part of the state too: get_node  *)
(* swaps it for the dict factory and a failure in between leaves it there. *)
(*                                                                         *)
(* The schema manager (create_database, open_database, delete_database)    *)
(* works on the files of two paths; closing a connection discards what its *)
(* transaction had not committed.  The import walks of src/src/bmconv.py   *)
(* (JSONToSQLite.convert, ChromeToTree._chrome_into_object) are modelled   *)
(* by their call stack and the add_node calls they make.                   *)
(***************************************************************************)
EXTENDS Integers, Sequences, FiniteSets, TLC

(* ---------------------------- bounds ----------------------------------- *)
\* most rows the tree table may hold (root included)
MaxNodes == 3
\* the clock runs through the seconds 0..MaxTime
MaxTime == 1
\* a node is added only while the tables of the connected store hold fewer
\* than MaxGuids guids beside its own
MaxGuids == 3
\* number of nodes below the root in a tree image given to an import walk
MaxImage == 3

(* ---------------------------- values ----------------------------------- *)
\* Python's None / SQL NULL
None == "None"
\* a Python value sqlite3 cannot bind to a statement parameter (a list)
Unbindable == "<list>"

\* ModelSQLite._dict_factory as the cursor's row factory
DictFactory == "_dict_factory"

\* the path of the store the repository operations work on
MainPath == "test_db.sqlite3"
\* the path of a second store
OtherPath == "other_db.sqlite3"
Paths == {MainPath, OtherPath}

Names == {"roots", "a", "b"}

\* the uuids 1..99 as uuid4().hex gives them: 32 characters, no dashes
str_Hex ==
    [i \in 1..99 |-> "000000000000400080000000000000" \o ToString(i \div 10) \o ToString(i % 10)]

\* str(uuid): the uuids 1..99 as 36-character canonical strings
str ==
    [i \in 1..99 |-> "00000000-0000-4000-8000-0000000000" \o ToString(i \div 10) \o ToString(i % 10)]

EmptyDict == [k \in {} |-> ""]

\* what `files` holds for a path at which no file exists
NoFile == [exists |-> FALSE, tree |-> <<>>, folder |-> EmptyDict, url |-> EmptyDict]

\* No run of bmconv.py has been started.  The fields of a run: where main
\* is ("main": not started, "input": waiting at the prompt, "convert": in the
\* import walk, "exit": ended), the --from and --to of the command line,
\* what the source path holds, whether it held no file when main looked,
\* whether the user declined the overwrite, whether main removed an
\* existing destination, what is at the destination path ("none", "old":
\* the file found there, "blocked": no file can be made there, "new": a file
\* this run wrote), the exit code (-1 while the run has not ended), the
\* exception that ended the run, the result the conversion reported (<<>>
\* when none did), and the state of the import walk.
NoWalk == [pc |-> "main", pair |-> <<>>,
           source |-> [kind |-> "missing", keys |-> {}, image |-> <<>>, names |-> <<>>],
           missing |-> FALSE, declined |-> FALSE, removed |-> FALSE,
           destination |-> "none", exit |-> -1, err |-> "ok", res |-> <<>>,
           kind |-> None, keys |-> {}, image |-> <<>>, names |-> <<>>,
           frames |-> <<>>, calls |-> <<>>, assigned |-> <<>>,
           rows |-> <<>>, committed |-> 0]

VARIABLES
    tree,     \* rows of table tree as the connection sees them, in rowid order
    folder,   \* rows of table folder: node_id -> date_modified
    url,      \* rows of table url: node_id -> [url, icon, keywords]
    files,    \* path -> the database file at that path (its committed content), or NoFile
    db_name,  \* ModelSQLite.db_name
    conn,     \* ModelSQLite.conn: None, or the path the open connection is attached to
    now,      \* the wall clock, in seconds
    last,     \* the last call made and how it ended: [op, err]
    row_factory,  \* ModelSQLite.cur.row_factory: None, or DictFactory
    ret,      \* what the last call returned: <<>> for nothing, else <<value>>
    cur,      \* ModelSQLite.cur: None, or the path of the connection the cursor was made on
    connections,   \* how many sqlite3 connections this object has opened and not closed
    foreign_keys,  \* PRAGMA foreign_keys of the connection last opened
    walk      \* the run of bmconv.py and its import walk, if any (see NoWalk)

vars == <<tree, folder, url, files, db_name, conn, now, last, row_factory, ret,
          cur, connections, foreign_keys, walk>>

\* the connection, its cursor and its settings
session == <<db_name, conn, cur, connections, foreign_keys>>

(* ---------------------------- helpers ---------------------------------- *)
\* datetime.isoformat(datetime.today().replace(microsecond=0))
isoformat(t) == "2026-10-30T15:25:0" \o ToString(t)

\* "key in attr_dict"
Has(d, k) == k \in DOMAIN d
\* "key in attr_dict and attr_dict[key]" (present and truthy)
HasValue(d, k) == k \in DOMAIN d /\ d[k] # ""
\* attr_dict without key k (dict.pop)
Without(d, k) == [x \in (DOMAIN d) \ {k} |-> d[x]]

\* the rows of t (a sequence) that satisfy the WHERE clause name = n
RowsNamed(t, n) == {i \in 1..Len(t) : t[i].name = n}
\* cursor.fetchone() for SELECT ... FROM tree WHERE name = n: the first row, as an index, or 0
fetchone(t, n) == IF RowsNamed(t, n) = {} THEN 0
                  ELSE CHOOSE i \in RowsNamed(t, n) : \A j \in RowsNamed(t, n) : i <= j

GuidsOf(t) == {t[i].guid : i \in 1..Len(t)}
NamesOf(t) == {t[i].name : i \in 1..Len(t)}

\* a database file holding the three tables
Content(t, f, u) == [exists |-> TRUE, tree |-> t, folder |-> f, url |-> u]

\* os.path.isfile(name)
isfile(name) == files[name].exists

\* the guids that occur in the tables t, f, u
GuidsIn(t, f, u) ==
    (GuidsOf(t) \cup {t[i].parent_guid : i \in 1..Len(t)} \cup DOMAIN f \cup DOMAIN u)
        \ {None}

\* the guids that occur anywhere: in the view of the connection and in the
\* database files
GuidsInUse ==
    GuidsIn(tree, folder, url)
    \cup UNION {GuidsIn(files[p].tree, files[p].folder, files[p].url) : p \in Paths}

\* str(uuid.uuid4()): a random guid, so one that occurs nowhere, in no store,
\* and that no caller supplies.  Random guids are interchangeable: the one
\* drawn is represented by the first of the strings str[1], str[2], ... that
\* occurs nowhere.
uuid4 ==
    LET used == GuidsInUse
        i == CHOOSE i \in DOMAIN str :
                 str[i] \notin used /\ \A j \in 1..(i - 1) : str[j] \in used
    IN  str[i]

\* a commit that writes nothing to the file
commit_Skipped(t, f, u) == files

\* conn.commit(): the connection's view becomes the content of the file
commit(t, f, u) == [files EXCEPT ![db_name] = Content(t, f, u)]

\* the name column without its UNIQUE constraint
UniqueNameViolated_Dropped(t, n, self) == FALSE

\* CONSTRAINT node_ak UNIQUE (name): does a row other than row `self` hold name n
UniqueNameViolated(t, n, self) == \E i \in 1..Len(t) : i # self /\ t[i].name = n
\* CONSTRAINT node_pk PRIMARY KEY (guid)
PrimaryKeyViolated(t, g) == g \in GuidsOf(t)

(* ---------------------------- get_children ----------------------------- *)
\* names of the rows WHERE parent_guid = g, in rowid order
ChildrenOf(t, g) ==
    LET kids == SelectSeq(t, LAMBDA r : r.parent_guid = g)
    IN  [i \in 1..Len(kids) |-> kids[i].name]

\* get_children(node_name): [err, res, children]
\* get_children without the test of line 49: subscripting the None of fetchone()
get_children_Unchecked(t, rf, node_name) ==
    LET i == fetchone(t, node_name) IN
    IF i = 0 THEN [err |-> "TypeError", res |-> FALSE, children |-> <<>>]
    ELSE IF rf # None THEN [err |-> "KeyError", res |-> FALSE, children |-> <<>>]
    ELSE IF t[i].node_type
         THEN [err |-> "ok", res |-> TRUE, children |-> ChildrenOf(t, t[i].guid)]
         ELSE [err |-> "ok", res |-> FALSE, children |-> <<>>]

\* with the tuple row factory (rf = None) line 53 reads res[0]; a row the
\* dict factory made has no key 0
get_children(t, rf, node_name) ==
    LET i == fetchone(t, node_name) IN
    IF i = 0 THEN [err |-> "NodeNotExists", res |-> FALSE, children |-> <<>>]
    ELSE IF rf # None THEN [err |-> "KeyError", res |-> FALSE, children |-> <<>>]
    ELSE IF t[i].node_type
         THEN [err |-> "ok", res |-> TRUE, children |-> ChildrenOf(t, t[i].guid)]
         ELSE [err |-> "ok", res |-> FALSE, children |-> <<>>]

(* ---------------------------- Init -------------------------------------- *)
\* ModelSQLite.__init__: no connection, no database file
Init ==
    /\ tree = <<>>
    /\ folder = EmptyDict
    /\ url = EmptyDict
    /\ files = [p \in Paths |-> NoFile]
    /\ db_name = ""
    /\ conn = None
    /\ now = 0
    /\ last = [op |-> "init", err |-> "ok"]
    /\ row_factory = None
    /\ ret = <<>>
    /\ cur = None
    /\ connections = 0
    /\ foreign_keys = FALSE
    /\ walk = NoWalk

(* ---------------------------- the clock --------------------------------- *)
Tick ==
    /\ now < MaxTime
    /\ now' = now + 1
    /\ last' = [op |-> "tick", err |-> "ok"]
    /\ ret' = <<>>
    /\ UNCHANGED <<tree, folder, url, files, session, row_factory, walk>>

(* ---------------------------- the schema manager ----------------------- *)
\* Connection.close() that leaves the connection open
close_Leak(n) == n

\* Connection.close(): one open connection less; what its transaction had
\* not committed is gone with it
close(n) == n - 1

\* sqlite3.connect(name): one open connection more
connect(n) == n + 1

\* lines 306-309 and 387-390: "if self.conn is not None: self.conn.close()"
close_existing(n) == IF conn # None THEN close(n) ELSE n

\* a test made after the close of lines 306-309: the call raises err with
\* the connection closed and db_name reset
Refuse_Closed(op, err) ==
    /\ last' = [op |-> op, err |-> err]
    /\ ret' = <<>>
    /\ db_name' = ""
    /\ conn' = None
    /\ connections' = close_existing(connections)
    /\ UNCHANGED <<tree, folder, url, files, cur, foreign_keys, now, row_factory, walk>>

\* a call of the schema manager that raised err before it changed anything
Refuse(op, err) ==
    /\ last' = [op |-> op, err |-> err]
    /\ ret' = <<>>
    /\ UNCHANGED <<tree, folder, url, files, session, now, row_factory, walk>>

create_database(name) ==
    IF isfile(name)
    THEN \* raise FileExistsError(name)
         Refuse("create_database", "FileExistsError")
    ELSE LET roots_guid == uuid4
             roots_date == isoformat(now)
             t == << [guid |-> roots_guid, parent_guid |-> None, id_no |-> 0,
                      name |-> "roots", date_added |-> roots_date, node_type |-> TRUE] >>
             f == (roots_guid :> roots_date)
         IN  /\ tree' = t
             /\ folder' = f
             /\ url' = EmptyDict
             /\ db_name' = name
             /\ conn' = name
             /\ connections' = connect(close_existing(connections))
             /\ foreign_keys' = TRUE  \* line 314
             /\ cur' = name           \* line 315: a new cursor
             /\ row_factory' = None
             /\ files' = [files EXCEPT ![name] = Content(t, f, EmptyDict)]
             /\ last' = [op |-> "create_database", err |-> "ok"]
             /\ ret' = <<>>
             /\ UNCHANGED <<now, walk>>

\* a connection opened without the pragma: SQLite's default, no enforcement
PragmaOnOpen_Default == FALSE

\* line 395: PRAGMA FOREIGN_KEYS = ON
PragmaOnOpen == TRUE

open_database(name) ==
    IF ~isfile(name)
    THEN \* raise FileNotFoundError(name)
         Refuse("open_database", "FileNotFoundError")
    ELSE /\ tree' = files[name].tree
         /\ folder' = files[name].folder
         /\ url' = files[name].url
         /\ db_name' = name
         /\ conn' = name
         /\ connections' = connect(close_existing(connections))
         /\ foreign_keys' = PragmaOnOpen
         /\ cur' = name           \* line 396: a new cursor
         /\ row_factory' = None
         /\ last' = [op |-> "open_database", err |-> "ok"]
         /\ ret' = <<>>
         /\ UNCHANGED <<files, now, walk>>

\* an os.remove of the file of the connected store instead of the file named
remove_Connected(fs, name) == [fs EXCEPT ![db_name] = NoFile]

\* an os.remove that leaves the file where it is
remove_Kept(fs, name) == fs

\* line 413: os.remove(name)
remove(fs, name) == [fs EXCEPT ![name] = NoFile]

delete_database(name) ==
    IF ~isfile(name)
    THEN \* raise FileNotFoundError(name)
         Refuse("delete_database", "FileNotFoundError")
    ELSE IF conn = None
    THEN \* line 410: None has no attribute close
         Refuse("delete_database", "AttributeError")
    ELSE \* the open connection is closed, whichever file it is attached to,
         \* and the file at name is removed
         /\ tree' = <<>>
         /\ folder' = EmptyDict
         /\ url' = EmptyDict
         /\ db_name' = ""
         /\ conn' = None
         /\ connections' = close(connections)
         /\ files' = remove(files, name)
         /\ last' = [op |-> "delete_database", err |-> "ok"]
         /\ ret' = <<>>
         /\ UNCHANGED <<now, cur, foreign_keys, row_factory, walk>>

(* ---------------------------- add_node ---------------------------------- *)
\* can sqlite3 bind the value to a statement parameter
Bindable(v) == v # Unbindable

\* lines 99-103: the incoming guid, or a new one when it is omitted or empty
ResolveGuid(attr_dict, t) ==
    IF HasValue(attr_dict, "guid") THEN {attr_dict["guid"]} ELSE {uuid4}

\* lines 96-128: the row for INSERT INTO tree
tree_dict(attr_dict, node_type, guid, parent_guid, today) ==
    [guid        |-> guid,
     parent_guid |-> parent_guid,
     id_no       |-> IF Has(attr_dict, "id_no") THEN attr_dict["id_no"] ELSE 0,
     name        |-> attr_dict["name"],
     date_added  |-> IF HasValue(attr_dict, "date_added")
                     THEN attr_dict["date_added"] ELSE isoformat(today),
     node_type   |-> node_type]

\* lines 139-144: date_modified for INSERT INTO folder
folder_dict(attr_dict, row) ==
    IF HasValue(attr_dict, "date_modified") THEN attr_dict["date_modified"]
    ELSE row.date_added

\* lines 153-161: the row for INSERT INTO url
url_dict(attr_dict) ==
    [url      |-> IF Has(attr_dict, "url") THEN attr_dict["url"] ELSE "",
     icon     |-> IF Has(attr_dict, "icon") THEN attr_dict["icon"] ELSE "",
     keywords |-> IF Has(attr_dict, "keywords") THEN attr_dict["keywords"] ELSE ""]

\* a call that raised err after leaving tables t, f, u in the open transaction
Raise(op, err, t, f, u) ==
    /\ tree' = t
    /\ folder' = f
    /\ url' = u
    /\ last' = [op |-> op, err |-> err]
    /\ ret' = <<>>
    /\ UNCHANGED <<files, session, now, row_factory, walk>>

\* a call that ran to its conn.commit() with tables t, f, u
Return(op, t, f, u) ==
    /\ tree' = t
    /\ folder' = f
    /\ url' = u
    /\ files' = commit(t, f, u)
    /\ last' = [op |-> op, err |-> "ok"]
    /\ ret' = <<>>
    /\ UNCHANGED <<session, now, row_factory, walk>>

\* line 109: "x, = fetchone()" of SELECT guid: the one element of the row
\* tuple, or, of a row the dict factory made, its one key
unpack(r, rf) == IF rf = None THEN r.guid ELSE "guid"

add_node(attr_dict, node_type) ==
    /\ conn # None
    /\ \E guid \in ResolveGuid(attr_dict, tree) :
       LET p == fetchone(tree, attr_dict["parent_name"]) IN
       IF p = 0
       THEN \* line 109: unpacking the None of fetchone()
            Raise("add_node", "TypeError", tree, folder, url)
       ELSE
       LET row == tree_dict(attr_dict, node_type, guid,
                            unpack(tree[p], row_factory), now)
           t1  == Append(tree, row)
       IN
       IF ~Bindable(row.date_added)
       THEN Raise("add_node", "ProgrammingError", tree, folder, url)
       ELSE IF PrimaryKeyViolated(tree, row.guid) \/ UniqueNameViolated(tree, row.name, 0)
       THEN \* lines 131-134: INSERT INTO tree fails
            Raise("add_node", "IntegrityError", tree, folder, url)
       ELSE
       /\ Len(tree) < MaxNodes
       /\ Cardinality(GuidsIn(tree, folder, url) \ {row.guid}) < MaxGuids
       /\ IF node_type
          THEN LET date_modified == folder_dict(attr_dict, row) IN
               IF ~Bindable(date_modified)
               THEN \* lines 147-150 fail, the tree row stays in the transaction
                    Raise("add_node", "ProgrammingError", t1, folder, url)
               ELSE IF row.guid \in DOMAIN folder
               THEN Raise("add_node", "IntegrityError", t1, folder, url)
               ELSE Return("add_node", t1, folder @@ (row.guid :> date_modified), url)
          ELSE LET u == url_dict(attr_dict) IN
               IF ~(Bindable(u.url) /\ Bindable(u.icon) /\ Bindable(u.keywords))
               THEN \* lines 164-167 fail, the tree row stays in the transaction
                    Raise("add_node", "ProgrammingError", t1, folder, url)
               ELSE IF row.guid \in DOMAIN url
               THEN Raise("add_node", "IntegrityError", t1, folder, url)
               ELSE Return("add_node", t1, folder, url @@ (row.guid :> u))

(* ---------------------------- update_node ------------------------------- *)
\* an UPDATE tree SET name without its WHERE clause
Rename_AllRows(t, name, new) == [i \in 1..Len(t) |-> [t[i] EXCEPT !.name = new]]

\* a rename that writes the whole row anew, id_no back at its default
Rename_Rewritten(t, name, new) ==
    [i \in 1..Len(t) |-> IF t[i].name = name
                         THEN [t[i] EXCEPT !.name = new, !.id_no = 0] ELSE t[i]]

\* line 192: UPDATE tree SET name = new WHERE name = name
Rename(t, name, new) == [i \in 1..Len(t) |-> IF t[i].name = name
                                             THEN [t[i] EXCEPT !.name = new] ELSE t[i]]

\* lines 201-204: does tree INNER JOIN url hold a row WHERE name = new_name
JoinsUrl(t, u, new_name) ==
    fetchone(t, new_name) # 0 /\ t[fetchone(t, new_name)].guid \in DOMAIN u

\* line 205: that row (fetchone() gives None when there is none)
stored_attrs(t, u, new_name) ==
    LET g == t[fetchone(t, new_name)].guid IN
    [url |-> u[g].url, icon |-> u[g].icon, keywords |-> u[g].keywords, node_id |-> g]

\* line 208: stored_attrs | attr_dict, the incoming values have priority
updated_attrs(stored, attr_dict) ==
    [k \in {"url", "icon", "keywords", "node_id"} |->
        IF Has(attr_dict, k) THEN attr_dict[k] ELSE stored[k]]

\* lines 210-212: UPDATE url SET (url, icon, keywords) = ... WHERE node_id = :node_id
UpdateUrl(u, a) ==
    IF a.node_id \in DOMAIN u
    THEN [u EXCEPT ![a.node_id] = [url |-> a.url, icon |-> a.icon, keywords |-> a.keywords]]
    ELSE u

\* lines 214-217: the parent_guid of the row named new_name
ParentGuid(t, new_name) == t[fetchone(t, new_name)].parent_guid

\* an UPDATE folder without its WHERE clause
UpdateFolder_AllRows(f, date_modified, node_id) == [g \in DOMAIN f |-> date_modified]

\* lines 220-223: UPDATE folder SET date_modified = ? WHERE node_id = ?
UpdateFolder(f, date_modified, node_id) ==
    IF node_id \in DOMAIN f THEN [f EXCEPT ![node_id] = date_modified] ELSE f

\* an emptiness test that never answers yes
no_attrs_Never(attr_dict) == FALSE

\* line 182: "not attr_dict"
no_attrs(attr_dict) == DOMAIN attr_dict = {}

update_node(name, attr_dict) ==
    /\ conn # None
    /\ IF no_attrs(attr_dict)
       THEN \* lines 182-184: no attrs, no actions
            /\ last' = [op |-> "update_node", err |-> "ok"]
            /\ ret' = <<>>
            /\ UNCHANGED <<tree, folder, url, files, session, now, row_factory, walk>>
       ELSE
       LET renaming == Has(attr_dict, "name")
           new_name == IF renaming THEN attr_dict["name"] ELSE name
           i        == fetchone(tree, name)
           rest     == Without(attr_dict, "name")
           t1       == IF renaming THEN Rename(tree, name, new_name) ELSE tree
       IN
       IF renaming /\ i # 0 /\ UniqueNameViolated(tree, new_name, i)
       THEN \* lines 190-192: UPDATE tree fails
            Raise("update_node", "IntegrityError", tree, folder, url)
       ELSE IF DOMAIN rest # {} /\ ~JoinsUrl(t1, url, new_name)
       THEN \* line 208: None | dict
            Raise("update_node", "TypeError", t1, folder, url)
       ELSE
       LET merged == updated_attrs(stored_attrs(t1, url, new_name), rest)
           u1     == IF DOMAIN rest # {} THEN UpdateUrl(url, merged) ELSE url
       IN
       IF DOMAIN rest # {} /\ \E k \in DOMAIN merged : ~Bindable(merged[k])
       THEN \* lines 210-212: a value of the merged row cannot be bound
            Raise("update_node", "ProgrammingError", t1, folder, url)
       ELSE IF fetchone(t1, new_name) = 0
       THEN \* line 217: None[0]
            Raise("update_node", "TypeError", t1, folder, u1)
       ELSE IF row_factory # None
       THEN \* line 217: [0] of a row the dict factory made
            Raise("update_node", "KeyError", t1, folder, u1)
       ELSE Return("update_node", t1,
                   UpdateFolder(folder, isoformat(now), ParentGuid(t1, new_name)), u1)

(* ---------------------------- delete_node ------------------------------- *)
\* lines 248-249: DELETE FROM tree WHERE name = ?
DeleteNamed(t, name) == SelectSeq(t, LAMBDA r : r.name # name)

\* the extension tables without ON DELETE CASCADE: every row stays
Cascade_Kept(ext, t) == ext

\* ON DELETE CASCADE of folder_fk / url_fk: the rows of an extension table
\* whose node_id is still a guid of tree
Cascade(ext, t) == [g \in (DOMAIN ext) \cap GuidsOf(t) |-> ext[g]]

delete_node(name) ==
    /\ conn # None
    /\ LET gc == get_children(tree, row_factory, name) IN
       IF gc.err # "ok"
       THEN Raise("delete_node", gc.err, tree, folder, url)
       ELSE IF gc.res /\ gc.children # <<>>
       THEN Raise("delete_node", "FolderNotEmpty", tree, folder, url)
       ELSE LET t1 == DeleteNamed(tree, name) IN
            IF foreign_keys
            THEN Return("delete_node", t1, Cascade(folder, t1), Cascade(url, t1))
            ELSE Return("delete_node", t1, folder, url)

(* ---------------------------- the queries ------------------------------- *)
\* a query that raised err; the cursor is left with row factory rf
Fail(op, err, rf) ==
    /\ last' = [op |-> op, err |-> err]
    /\ ret' = <<>>
    /\ row_factory' = rf
    /\ UNCHANGED <<tree, folder, url, files, session, now, walk>>

\* a query that returned value
Answer(op, value) ==
    /\ last' = [op |-> op, err |-> "ok"]
    /\ ret' = <<value>>
    /\ UNCHANGED <<tree, folder, url, files, session, now, row_factory, walk>>

\* a call of get_children(node_name)
call_get_children(node_name) ==
    /\ conn # None
    /\ LET gc == get_children(tree, row_factory, node_name) IN
       IF gc.err # "ok"
       THEN Fail("get_children", gc.err, row_factory)
       ELSE Answer("get_children", <<gc.res, gc.children>>)

\* lines 271-276, 286-287: the row of tree INNER JOIN folder as a dict, with
\* the children list, less node_id and node_type
folder_node(r, date_modified, children) ==
    [guid |-> r.guid, parent_guid |-> r.parent_guid, id_no |-> r.id_no,
     name |-> r.name, date_added |-> r.date_added,
     date_modified |-> date_modified, children |-> children]

\* lines 279-283, 286-287: the row of tree INNER JOIN url as a dict, less
\* node_id and node_type
url_node(r, u) ==
    [guid |-> r.guid, parent_guid |-> r.parent_guid, id_no |-> r.id_no,
     name |-> r.name, date_added |-> r.date_added,
     url |-> u.url, icon |-> u.icon, keywords |-> u.keywords]

\* get_node(name): [err, value, rf], value being <<the dict returned>> or <<>>
\* and rf the row factory the cursor is left with
node_dict(t, f, u, rf, name) ==
    LET gc == get_children(t, rf, name)
        i  == fetchone(t, name)
    IN
    IF gc.err # "ok"
    THEN [err |-> gc.err, value |-> <<>>, rf |-> rf]
    ELSE IF gc.res
    THEN IF t[i].guid \notin DOMAIN f
         THEN \* line 276: item assignment on the None of fetchone(); line
              \* 285 is not reached and the dict factory stays on the cursor
              [err |-> "TypeError", value |-> <<>>, rf |-> DictFactory]
         ELSE [err |-> "ok", rf |-> rf,
               value |-> <<folder_node(t[i], f[t[i].guid], gc.children)>>]
    ELSE IF t[i].guid \notin DOMAIN u
         THEN \* line 286: del on the None of fetchone(), after line 285
              [err |-> "TypeError", value |-> <<>>, rf |-> rf]
         ELSE [err |-> "ok", rf |-> rf, value |-> <<url_node(t[i], u[t[i].guid])>>]

get_node(name) ==
    /\ conn # None
    /\ LET res_dict == node_dict(tree, folder, url, row_factory, name) IN
       IF res_dict.err # "ok"
       THEN Fail("get_node", res_dict.err, res_dict.rf)
       ELSE Answer("get_node", res_dict.value[1])

(* ---------------------------- inputs ------------------------------------ *)
\* attribute mappings offered to add_node beside name and parent_name
AddExtras ==
    {EmptyDict}
    \cup {("date_modified" :> Unbindable)}

AddAttrs ==
    {("name" :> n) @@ ("parent_name" :> p) @@ x : n \in Names, p \in Names, x \in AddExtras}

\* does add_node read every key of attr_dict for a node of this type (a
\* date_modified is read for a Folder only, lines 137-144)
Read(attr_dict, node_type) == Has(attr_dict, "date_modified") => node_type

\* attribute mappings offered to update_node
UpdateAttrs ==
    {EmptyDict}
    \cup {("name" :> n) : n \in Names}
    \cup {("url" :> "V")}
    \cup {("name" :> n) @@ ("url" :> "V") : n \in Names}

Next ==
    \/ Tick
    \/ create_database(MainPath)
    \/ /\ Cardinality(GuidsIn(tree, folder, url)) < MaxGuids
       /\ \E attr_dict \in AddAttrs, node_type \in BOOLEAN :
             /\ Read(attr_dict, node_type)
             /\ add_node(attr_dict, node_type)
    \/ \E name \in Names, attr_dict \in UpdateAttrs : update_node(name, attr_dict)
    \/ \E name \in Names : delete_node(name)
    \/ \E node_name \in Names : call_get_children(node_name)
    \/ \E name \in Names : get_node(name)

Spec == Init /\ [][Next]_vars

(* ---------------------------- url attributes ---------------------------- *)
\* nodes added under the root with stored url attributes, with the defaults,
\* or with a url that cannot be bound
UrlAdds ==
    {("name" :> n) @@ ("parent_name" :> "roots") @@ x :
        n \in Names \ {"roots"},
        x \in {EmptyDict,
               ("url" :> "url0") @@ ("icon" :> "icon0") @@ ("keywords" :> "keywords0"),
               ("url" :> Unbindable)}}

\* every subset of the keys url, icon, keywords, each with a new value
UrlUpdates == {[k \in K |-> k \o "1"] : K \in SUBSET {"url", "icon", "keywords"}}

NextUrl ==
    \/ Tick
    \/ create_database(MainPath)
    \/ \E attr_dict \in UrlAdds, node_type \in BOOLEAN : add_node(attr_dict, node_type)
    \/ \E name \in Names, attr_dict \in UrlUpdates : update_node(name, attr_dict)
    \/ \E name \in Names : get_node(name)

SpecUrl == Init /\ [][NextUrl]_vars

(* ---------------------------- supplied attributes ----------------------- *)
\* a guid the caller supplies
SuppliedGuid == "6f1e2d3c-4b5a-4978-8a6b-5c4d3e2f1a0b"

\* what add_node is given beside name and parent_name: nothing, every
\* attribute, every attribute empty, a date_added alone, a date_modified
\* that cannot be bound
SuppliedExtras ==
    {EmptyDict,
     ("guid" :> SuppliedGuid) @@ ("id_no" :> 7) @@ ("date_added" :> "2020-01-01T00:00:00")
        @@ ("date_modified" :> "2021-01-01T00:00:00")
        @@ ("url" :> "url0") @@ ("icon" :> "icon0") @@ ("keywords" :> "keywords0"),
     ("guid" :> "") @@ ("id_no" :> 0) @@ ("date_added" :> "") @@ ("date_modified" :> "")
        @@ ("url" :> "") @@ ("icon" :> "") @@ ("keywords" :> ""),
     ("date_added" :> "2020-01-01T00:00:00"),
     ("date_modified" :> Unbindable)}

SuppliedAdds ==
    {("name" :> n) @@ ("parent_name" :> p) @@ x :
        n \in Names \ {"roots"}, p \in Names, x \in SuppliedExtras}

NextAdd ==
    \/ Tick
    \/ create_database(MainPath)
    \/ \E attr_dict \in SuppliedAdds, node_type \in BOOLEAN : add_node(attr_dict, node_type)
    \/ \E name \in Names : get_node(name)
    \/ \E name \in Names : delete_node(name)

SpecAdd == Init /\ [][NextAdd]_vars

(* ---------------------------- several stores ---------------------------- *)
\* the names used in the stores of SpecDb
DbNames == {"roots", "a"}

\* a node "a" added under the root, with or without a date_modified that
\* cannot be bound
DbAdds ==
    {("name" :> "a") @@ ("parent_name" :> "roots") @@ x :
        x \in {EmptyDict, ("date_modified" :> Unbindable)}}

DbUpdates == {EmptyDict, ("url" :> "V")}

NextDb ==
    \/ Tick
    \/ \E name \in Paths : create_database(name)
    \/ \E name \in Paths : open_database(name)
    \/ \E name \in Paths : delete_database(name)
    \/ \E attr_dict \in DbAdds, node_type \in BOOLEAN :
          /\ Read(attr_dict, node_type)
          /\ add_node(attr_dict, node_type)
    \/ \E name \in DbNames, attr_dict \in DbUpdates : update_node(name, attr_dict)
    \/ \E name \in DbNames : delete_node(name)
    \/ \E name \in DbNames : get_node(name)

SpecDb == Init /\ [][NextDb]_vars

(* ---------------------------- header keys ------------------------------- *)
\* nodes added with an id_no of their own
HdrAdds ==
    {("name" :> n) @@ ("parent_name" :> p) @@ ("id_no" :> IF n = "a" THEN 7 ELSE 8) :
        n \in Names \ {"roots"}, p \in {"roots", "a"}}

\* the keys of the main row, offered to update_node as attrs
HeaderKeys ==
    ("guid" :> SuppliedGuid) @@ ("parent_guid" :> SuppliedGuid) @@ ("id_no" :> 9)
        @@ ("date_added" :> "1999-01-01T00:00:00") @@ ("node_type" :> "True")

HdrUpdates ==
    {x @@ y : x \in {EmptyDict, ("name" :> "b"), ("url" :> "V")},
              y \in {EmptyDict, HeaderKeys}}

NextHdr ==
    \/ Tick
    \/ create_database(MainPath)
    \/ \E attr_dict \in HdrAdds, node_type \in BOOLEAN : add_node(attr_dict, node_type)
    \/ \E name \in Names, attr_dict \in HdrUpdates : update_node(name, attr_dict)
    \/ \E name \in Names : delete_node(name)

SpecHdr == Init /\ [][NextHdr]_vars

(* ---------------------------- import walks (bmconv.py) ------------------ *)
\* A tree image: node 0 is the root image, nodes 1..MaxImage lie below it,
\* each with the node its dict is nested in and whether it has a 'children'
\* list (a folder).  The children list of a node holds its children in the
\* order of their numbers.  The guids of an image are distinct and its
\* values can be bound; its root is named 'roots'.
Images ==
    {img \in [1..MaxImage -> [parent : 0..(MaxImage - 1), folder : BOOLEAN]] :
        \A n \in 1..MaxImage :
            /\ img[n].parent < n
            /\ img[n].parent # 0 => img[img[n].parent].folder}

\* the top-level keys ChromeToTree.convert names (line 242)
ChromeKeys == {"checksum", "roots", "version"}

\* the 'name' values of the nodes of a source
SourceNames == {"x", "x(1)", "y", "roots"}

\* What the source path of a run holds: no file ("missing"), bytes that are
\* no UTF-8 text ("binary"), text that is no JSON ("garbage"), or a JSON
\* object with its top-level keys, its nodes and their names.
Sources ==
    {[kind |-> k, keys |-> {}, image |-> <<>>, names |-> <<>>] :
        k \in {"missing", "binary", "garbage"}}
    \cup {[kind |-> "json", keys |-> ks, image |-> img, names |-> nm] :
            ks \in SUBSET ChromeKeys, img \in Images, nm \in [1..MaxImage -> SourceNames]}

\* the source file removed (by another process)
Removed_Source == [kind |-> "missing", keys |-> {}, image |-> <<>>, names |-> <<>>]

\* What the destination path of a run holds when main starts: nothing
\* ("none"), a file ("old"), or nothing, and no file can be made there
\* ("blocked": a missing directory, or the path of a directory).
Destinations == {"none", "old", "blocked"}

\* list_input_formats, list_output_formats: the choices of --from and --to
list_input_formats == {"chrome", "json", "sqlite"}
list_output_formats == {"json", "sqlite"}

\* tree_image['children'] of node p
ImageChildren(img, p) ==
    SelectSeq([n \in 1..MaxImage |-> n], LAMBDA n : img[n].parent = p)

\* CONSTRAINT node_ak UNIQUE (name) of the table tree JSONToSQLite creates:
\* is the name of child the root's or that of a row of the connection's view
JSONToSQLite_UniqueNameViolated(w, child) ==
    \/ w.names[child] = "roots"
    \/ \E k \in 1..Len(w.rows) : w.names[w.rows[k]] = w.names[child]

\* JSONToSQLite.add_node(child, node_type): INSERT INTO tree raises
\* sqlite3.IntegrityError for a name the table holds (lines 136-139); else
\* the row is inserted, and the transaction is committed in the url branch
\* only (line 166)
JSONToSQLite_add_node(w, child) ==
    IF JSONToSQLite_UniqueNameViolated(w, child)
    THEN [w EXCEPT !.calls = Append(w.calls, child), !.err = "IntegrityError"]
    ELSE LET rows == Append(w.rows, child) IN
         [w EXCEPT !.calls = Append(w.calls, child),
                   !.rows = rows,
                   !.committed = IF w.image[child].folder THEN w.committed ELSE Len(rows)]

\* RootBookmarks.add_node(attr_dict, node_type) of my_nodes: the node joins
\* the tree when its parent_name resolves
RootBookmarks_add_node(w, child) ==
    LET parent == w.image[child].parent
        resolves == parent = 0 \/ \E k \in 1..Len(w.rows) : w.rows[k] = parent
    IN  [w EXCEPT !.calls = Append(w.calls, child),
                  !.rows = IF resolves THEN Append(w.rows, child) ELSE w.rows]

\* name(i)
name_i(name, i) == name \o "(" \o ToString(i) \o ")"

\* the keys of RootBookmarks.nodes_dict: 'roots' (line 189) and the names
\* of the nodes added so far
nodes_dict(w) == {"roots"} \cup {w.assigned[k] : k \in 1..Len(w.assigned)}

\* RootBookmarks.duplicate_name(name) of my_nodes: the name itself when it
\* is not used yet, else the first free of name(1), name(2), ...
duplicate_name(used, name) ==
    IF name \notin used
    THEN name
    ELSE LET i == CHOOSE i \in 1..(Cardinality(used) + 1) :
                     /\ name_i(name, i) \notin used
                     /\ \A j \in 1..(i - 1) : name_i(name, j) \in used
         IN  name_i(name, i)

\* line 207 left out: the child keeps the name of the source
rename_child_Kept(w, child) == w.names[child]

\* line 207: attr_dict['name'] = self.root.duplicate_name(attr_dict['name'])
rename_child(w, child) == duplicate_name(nodes_dict(w), w.names[child])

\* the frame on top of the stack moved on to its next child
Advance(frames) ==
    [frames EXCEPT ![Len(frames)].i = frames[Len(frames)].i + 1]

\* the process ended by an exception nothing caught: a traceback, exit code 1
Traceback(w, err) == [w EXCEPT !.pc = "exit", !.err = err, !.exit = 1]

\* lines 374-380 of main, for a conversion that returned (False, message):
\* exit(1)
Failed(w) == [w EXCEPT !.pc = "exit", !.res = <<FALSE>>, !.exit = 1]

\* lines 374-378 of main, for a conversion that returned (True, ''): main
\* returns, exit code 0
Succeeded(w) == [w EXCEPT !.pc = "exit", !.res = <<TRUE>>, !.exit = 0]

\* json_to_sqlite(source, destination), up to the call of conv.convert:
\* open(source) raises FileNotFoundError and f.read() UnicodeDecodeError,
\* which nothing catches (lines 299-300); a source that is no JSON gives
\* (False, message) (lines 301-302); sqlite3.connect (line 62) raises
\* sqlite3.OperationalError where no file can be made, (False, message)
\* (lines 309-310); else JSONToSQLite(destination, tree_image) (line 305)
\* creates the destination, stores and commits the root row, and
\* conv.convert(tree_image) is entered
json_to_sqlite(w) ==
    IF w.source.kind = "missing" THEN Traceback(w, "FileNotFoundError")
    ELSE IF w.source.kind = "binary" THEN Traceback(w, "UnicodeDecodeError")
    ELSE IF w.source.kind = "garbage" THEN Failed(w)
    ELSE IF w.destination = "blocked" THEN Failed(w)
    ELSE [w EXCEPT !.pc = "convert", !.kind = "json",
                   !.image = w.source.image, !.names = w.source.names,
                   !.frames = << [node |-> 0, i |-> 1] >>,
                   !.destination = "new"]

\* one turn of the loop of JSONToSQLite.convert (lines 175-180), or its
\* return: to the convert that called it, which then adds the folder (line
\* 178), or to json_to_sqlite, which closes the connection (line 307) and
\* returns (True, '') to main.  An add_node that raises ends the walk:
\* json_to_sqlite returns (False, message) (lines 309-310) and the
\* connection goes with what it had not committed.
convert ==
    /\ walk.pc = "convert"
    /\ walk.kind = "json"
    /\ LET top == walk.frames[Len(walk.frames)]
           kids == ImageChildren(walk.image, top.node)
           below == SubSeq(walk.frames, 1, Len(walk.frames) - 1)
           \* what follows a call of add_node that left the frames at f
           after_add(w, f) ==
               IF w.err # "ok"
               THEN Failed([w EXCEPT !.err = "ok", !.frames = <<>>,
                                     !.rows = SubSeq(w.rows, 1, w.committed)])
               ELSE [w EXCEPT !.frames = f]
       IN  IF top.i <= Len(kids)
           THEN LET child == kids[top.i] IN
                IF walk.image[child].folder
                THEN \* line 177: self.convert(child)
                     walk' = [walk EXCEPT !.frames = Append(walk.frames, [node |-> child, i |-> 1])]
                ELSE \* line 180: self.add_node(child, False)
                     walk' = after_add(JSONToSQLite_add_node(walk, child), Advance(walk.frames))
           ELSE IF below # <<>>
                THEN \* line 178: self.add_node(child, True)
                     walk' = after_add(JSONToSQLite_add_node(walk, top.node), Advance(below))
                ELSE \* line 307: conn.close() drops what was not committed
                     walk' = Succeeded([walk EXCEPT !.frames = <<>>,
                                                    !.rows = SubSeq(walk.rows, 1, walk.committed)])
    /\ last' = [op |-> "convert", err |-> "ok"]
    /\ UNCHANGED <<tree, folder, url, files, session, now, row_factory, ret>>

\* ChromeToTree.convert(filename), up to the call of _chrome_into_object:
\* open(filename) raises FileNotFoundError, f.read() UnicodeDecodeError and
\* json.load JSONDecodeError (lines 237-238); the test of line 242,
\* `'checksum' and 'roots' and 'version' not in chrome_keys`, is the test
\* `'version' not in chrome_keys`, as the operands of `and` before it are
\* non-empty strings; source_file['roots'] raises KeyError (line 247); else
\* the walk starts at the root (lines 254-255)
ChromeToTree_convert(w) ==
    IF w.source.kind = "missing" THEN Traceback(w, "FileNotFoundError")
    ELSE IF w.source.kind = "binary" THEN Traceback(w, "UnicodeDecodeError")
    ELSE IF w.source.kind = "garbage" THEN Traceback(w, "JSONDecodeError")
    ELSE LET loaded == [w EXCEPT !.kind = "chrome", !.keys = w.source.keys] IN
         IF "version" \notin w.source.keys
         THEN Failed(loaded)
         ELSE IF "roots" \notin w.source.keys
         THEN Traceback(loaded, "KeyError")
         ELSE [loaded EXCEPT !.pc = "convert",
                             !.image = w.source.image, !.names = w.source.names,
                             !.frames = << [node |-> 0, i |-> 1] >>]

\* chrome_to_json(source, destination), up to the return of conv.convert
\* (line 275); what convert returned when it is not success (line 284)
chrome_to_json(w) == ChromeToTree_convert(w)

\* lines 276-284 of chrome_to_json, convert having returned (True, ''): the
\* tree is dumped to the destination; an OSError of open(destination, "w")
\* makes the result (False, message)
chrome_to_json_dump(w) ==
    IF w.destination = "blocked"
    THEN Failed(w)
    ELSE Succeeded([w EXCEPT !.destination = "new"])

\* one turn of the loop of ChromeToTree._chrome_into_object (lines 199-227),
\* or its return: to the call that recursed (line 217), or to convert and
\* chrome_to_json, which dumps the tree and returns to main
chrome_into_object ==
    /\ walk.pc = "convert"
    /\ walk.kind = "chrome"
    /\ LET top == walk.frames[Len(walk.frames)]
           kids == ImageChildren(walk.image, top.node)
           below == SubSeq(walk.frames, 1, Len(walk.frames) - 1)
       IN  IF top.i <= Len(kids)
           THEN LET child == kids[top.i]
                    named == [walk EXCEPT !.assigned = Append(walk.assigned, rename_child(walk, child))]
                    added == RootBookmarks_add_node(named, child)
                IN  IF walk.image[child].folder
                    THEN \* lines 216-217: add_node, then the recursion
                         walk' = [added EXCEPT
                                     !.frames = Append(walk.frames, [node |-> child, i |-> 1])]
                    ELSE \* line 222: add_node
                         walk' = [added EXCEPT !.frames = Advance(walk.frames)]
           ELSE IF below # <<>>
                THEN \* line 227: return dt; the caller removes the child (lines 225-226)
                     walk' = [walk EXCEPT !.frames = Advance(below)]
                ELSE walk' = chrome_to_json_dump([walk EXCEPT !.frames = <<>>])
    /\ last' = [op |-> "_chrome_into_object", err |-> "ok"]
    /\ UNCHANGED <<tree, folder, url, files, session, now, row_factory, ret>>

\* answer.lower()
lower(answer) == IF answer = "Y" THEN "y" ELSE answer

\* what may be typed at the prompt "Overwrite? [Y/n] --> "
Answers == {"y", "Y", "n", ""}

\* lines 356-380 of main: the match statement, and the exit section for a
\* conversion that has returned
main_match(w) ==
    IF w.pair = <<"chrome", "json">> THEN chrome_to_json(w)
    ELSE IF w.pair = <<"chrome", "sqlite">> THEN [w EXCEPT !.pc = "exit", !.exit = 0]
    ELSE IF w.pair = <<"json", "sqlite">> THEN json_to_sqlite(w)
    ELSE IF w.pair = <<"sqlite", "json">> THEN [w EXCEPT !.pc = "exit", !.exit = 0]
    ELSE [w EXCEPT !.pc = "exit", !.exit = 1]

\* main(), lines 314-349 and on, for a command line argparse accepted:
\* from_, to are its choices, source and destination what the two paths
\* hold.  A process runs main once.  With a file at the destination main
\* asks and waits in input() (line 349); else it goes on to the conversion,
\* where the run ends here or inside the walk (convert, chrome_into_object).
main ==
    /\ walk = NoWalk
    /\ \E from_ \in list_input_formats, to \in list_output_formats, source \in Sources,
          destination \in Destinations :
          LET start == [NoWalk EXCEPT !.pair = <<from_, to>>,
                                      !.source = source,
                                      !.destination = destination]
              after ==
                  IF source.kind = "missing"
                  THEN \* lines 342-344
                       [start EXCEPT !.pc = "exit", !.missing = TRUE, !.exit = 1]
                  ELSE IF destination = "old"
                  THEN \* lines 347-349
                       [start EXCEPT !.pc = "input"]
                  ELSE main_match(start)
          IN  /\ walk' = after
              /\ last' = [op |-> "main", err |-> after.err]
    /\ ret' = <<>>
    /\ UNCHANGED <<tree, folder, url, files, session, now, row_factory>>

\* while main waits in input(), another process removes the file at the
\* destination or the file at the source
remove_meanwhile ==
    /\ walk.pc = "input"
    /\ \/ walk.destination = "old" /\ walk' = [walk EXCEPT !.destination = "none"]
       \/ walk.source.kind # "missing" /\ walk' = [walk EXCEPT !.source = Removed_Source]
    /\ UNCHANGED <<tree, folder, url, files, session, now, row_factory, ret, last>>

\* main(), lines 349-380: input() returns answer.  A declined overwrite is
\* exit(1); else os.remove(args.destination) (line 354), which raises
\* FileNotFoundError when the file is there no more, and the conversion.
main_input ==
    /\ walk.pc = "input"
    /\ \E answer \in Answers :
          LET after ==
                  IF lower(answer) # "y"
                  THEN \* lines 350-352
                       [walk EXCEPT !.pc = "exit", !.declined = TRUE, !.exit = 1]
                  ELSE IF walk.destination # "old"
                  THEN Traceback(walk, "FileNotFoundError")
                  ELSE main_match([walk EXCEPT !.destination = "none", !.removed = TRUE])
          IN  /\ walk' = after
              /\ last' = [op |-> "main", err |-> after.err]
    /\ ret' = <<>>
    /\ UNCHANGED <<tree, folder, url, files, session, now, row_factory>>

NextImport ==
    \/ main
    \/ remove_meanwhile
    \/ main_input
    \/ convert
    \/ chrome_into_object

SpecImport == Init /\ [][NextImport]_vars

(* ======================================================================= *)
(* Properties                                                              *)
(* ======================================================================= *)
\* the rows of t without a parent_guid
RootRows(t) == {i \in 1..Len(t) : t[i].parent_guid = None}
\* the names of the rows of t whose parent_guid is g, as a set
ChildSet(t, g) == {t[i].name : i \in {j \in 1..Len(t) : t[j].parent_guid = g}}
\* is n the name of a Folder row of t that has at least one child
NonEmptyFolder(t, n) ==
    \E i \in 1..Len(t) : /\ t[i].name = n
                         /\ t[i].node_type
                         /\ \E j \in 1..Len(t) : t[j].parent_guid = t[i].guid
StoreUnchanged == UNCHANGED <<tree, folder, url, files>>

(* ----------------------------------------------------------------------- *)
\* C1: no two nodes of the tree have the same name in any reachable state, and
\* an add_node or a rename that would produce a duplicate name fails and
\* leaves the tree as it was.
UniqueNames(t) == \A i, j \in 1..Len(t) : i # j => t[i].name # t[j].name

\* a step that is not a failure leaving the tree alone is no add_node and no
\* rename of a call whose name is already held by another node
C1_DuplicateFails ==
    (last'.err = "ok" \/ tree' # tree) =>
        /\ last'.op = "add_node" =>
             \A a \in AddAttrs, nt \in BOOLEAN :
                a["name"] \in NamesOf(tree) => ~add_node(a, nt)
        /\ last'.op = "update_node" =>
             \A n \in NamesOf(tree), a \in UpdateAttrs :
                (Has(a, "name") /\ a["name"] \in NamesOf(tree) \ {n}) => ~update_node(n, a)

C1_UniqueNames == [](UniqueNames(tree)) /\ [][C1_DuplicateFails]_vars

\* a duplicate name has just been refused while the tree holds several nodes
C1_Witness ==
    /\ last.op \in {"add_node", "update_node"}
    /\ last.err = "IntegrityError"
    /\ Len(tree) >= 2

(* ----------------------------------------------------------------------- *)
\* C2: once the store is created, exactly one node with an absent
\* parent_guid exists; delete_node never removes the root.
C2_ExactlyOneRoot == conn # None => Cardinality(RootRows(tree)) = 1

(* ----------------------------------------------------------------------- *)
\* C3: the parent_guid of every non-root node is the guid of a node that
\* exists and is a Folder.
C3_ParentIsFolder ==
    \A i \in 1..Len(tree) :
        tree[i].parent_guid # None =>
            \E j \in 1..Len(tree) : tree[j].guid = tree[i].parent_guid /\ tree[j].node_type

(* ----------------------------------------------------------------------- *)
\* C4: an add_node that fails leaves no main row of the node visible to later
\* operations: the tree table is as it was before the call.
C4_AddNodeAtomic ==
    [][(last'.op = "add_node" /\ last'.err # "ok") => tree' = tree]_vars

(* ----------------------------------------------------------------------- *)
\* C5: an update_node that fails leaves no rename visible to later
\* operations: every node is still resolvable under its old name.
C5_UpdateNodeAtomic ==
    [][(last'.op = "update_node" /\ last'.err # "ok") => tree' = tree]_vars

(* ----------------------------------------------------------------------- *)
\* C6: delete_node on a Folder that has at least one child fails with
\* FolderNotEmpty and leaves every node, extension row and timestamp
\* unchanged.
C6_FolderNotEmpty ==
    [][\A n \in Names :
          (NonEmptyFolder(tree, n) /\ delete_node(n))
          => (last'.err = "FolderNotEmpty" /\ StoreUnchanged)]_vars

(* ----------------------------------------------------------------------- *)
\* C7: whenever add_node or delete_node changes the set of direct children of
\* a Folder, that Folder's date_modified is set to the time of the operation.
C7_ChildChangeStampsFolder ==
    [][(last'.op \in {"add_node", "delete_node"} /\ last'.err = "ok") =>
         \A g \in (DOMAIN folder) \cap (DOMAIN folder') :
            ChildSet(tree', g) # ChildSet(tree, g) => folder'[g] = isoformat(now)]_vars

(* ----------------------------------------------------------------------- *)
\* C8 as stated: when update_node changes the name of a Folder, that
\* Folder's own date_modified is set to the time of the update.
C8_RenameStampsOwn ==
    [][(last'.op = "update_node" /\ last'.err = "ok") =>
         \A i \in 1..Len(tree) :
            (/\ tree[i].node_type
             /\ tree[i].guid \in DOMAIN folder
             /\ tree'[i].name # tree[i].name)
            => folder'[tree[i].guid] = isoformat(now)]_vars

\* C8 as amended: when update_node changes the name of a Folder, the
\* Folder's own date_modified keeps its value; the date_modified set to the
\* time of the update is that of the folder row of the Folder's parent.
C8_RenameStampsParent ==
    [][(last'.op = "update_node" /\ last'.err = "ok") =>
         \A i \in 1..Len(tree) :
            (/\ tree[i].node_type
             /\ tree[i].guid \in DOMAIN folder
             /\ tree'[i].name # tree[i].name)
            => /\ folder'[tree[i].guid] = folder[tree[i].guid]
               /\ tree[i].parent_guid \in DOMAIN folder
                    => folder'[tree[i].parent_guid] = isoformat(now)]_vars

\* an update_node has just stamped the parent of a Folder whose own
\* date_modified is older than the update
C8_Witness ==
    /\ last.op = "update_node"
    /\ last.err = "ok"
    /\ \E i \in 1..Len(tree) :
          /\ tree[i].node_type
          /\ tree[i].guid \in DOMAIN folder
          /\ tree[i].parent_guid \in DOMAIN folder
          /\ ChildSet(tree, tree[i].parent_guid) = {tree[i].name}
          /\ folder[tree[i].parent_guid] = isoformat(now)
          /\ folder[tree[i].guid] # isoformat(now)

(* ----------------------------------------------------------------------- *)
\* C9: a successful update_node with non-empty attrs on a non-root node sets
\* the date_modified of the node's parent Folder to the current time (the
\* parent being that of the node under its name after the rename) and
\* changes the date_modified of no other Folder.
\* the folder table after a stamp of the parent of the node named n, and of
\* it alone: the parent holds a folder row, that row carries the current
\* time, and every other row is as it was
C9_Stamped(n) ==
    LET parent_guid == tree[fetchone(tree, n)].parent_guid
    IN  /\ DOMAIN folder' = DOMAIN folder
        /\ parent_guid \in DOMAIN folder'
        /\ folder'[parent_guid] = isoformat(now)
        /\ \A g \in DOMAIN folder \ {parent_guid} : folder'[g] = folder[g]

C9_UpdateStampsParentOnly ==
    [][(last'.op = "update_node" /\ last'.err = "ok") =>
         \A n \in NamesOf(tree) :
            tree[fetchone(tree, n)].parent_guid # None =>
               \/ C9_Stamped(n)
               \/ \A a \in UpdateAttrs : DOMAIN a # {} => ~update_node(n, a)]_vars

(* ----------------------------------------------------------------------- *)
\* C10: update_node with non-empty attrs on a name that is not in the tree,
\* and add_node whose parent_name is not in the tree, each fail with
\* NodeNotExists and leave every node of the store unchanged.
C10_MissIsNodeNotExists ==
    [][/\ last'.op = "update_node" =>
            \A n \in Names, a \in UpdateAttrs :
               (DOMAIN a # {} /\ n \notin NamesOf(tree) /\ update_node(n, a))
               => (last'.err = "NodeNotExists" /\ StoreUnchanged)
       /\ last'.op = "add_node" =>
            \A a \in AddAttrs, nt \in BOOLEAN :
               (a["parent_name"] \notin NamesOf(tree) /\ add_node(a, nt))
               => (last'.err = "NodeNotExists" /\ StoreUnchanged)]_vars
(* ----------------------------------------------------------------------- *)
\* C11: get_children, get_node and delete_node called with a name that is
\* not in the tree each fail with NodeNotExists, and the store is unchanged
\* afterwards.
C11_MissingName ==
    [][last'.op \in {"get_children", "get_node", "delete_node"} =>
         \A n \in Names \ NamesOf(tree) :
            \/ last'.err = "NodeNotExists" /\ StoreUnchanged
            \/ ~(call_get_children(n) \/ get_node(n) \/ delete_node(n))]_vars

\* a query has just been refused for a name the tree, which holds other
\* nodes, does not hold
C11_Witness ==
    /\ last.op \in {"get_children", "get_node"}
    /\ last.err = "NodeNotExists"
    /\ Len(tree) >= 2
    /\ NamesOf(tree) # Names

(* ----------------------------------------------------------------------- *)
\* C12: add_node with a name already present in the tree, under any parent
\* the tree holds (a Folder or a Url), fails with a constraint violation
\* (IntegrityError) and leaves the node of that name and every other node
\* unchanged.
C12_DuplicateAddRefused ==
    [][last'.op = "add_node" =>
         \A a \in AddAttrs, nt \in BOOLEAN :
            (a["name"] \in NamesOf(tree) /\ a["parent_name"] \in NamesOf(tree)) =>
               \/ last'.err = "IntegrityError" /\ StoreUnchanged
               \/ ~add_node(a, nt)]_vars

\* an add_node has just been refused by a constraint while the tree holds a
\* Url node
C12_Witness ==
    /\ last.op = "add_node"
    /\ last.err = "IntegrityError"
    /\ \E i \in 1..Len(tree) : ~tree[i].node_type /\ tree[i].guid \in DOMAIN url

(* ----------------------------------------------------------------------- *)
\* C13: immediately after create_database succeeds the store holds exactly
\* one node: a Folder named "roots" with absent parent_guid, id_no 0, a
\* 36-character guid and date_added equal to date_modified; the url table
\* is empty.
C13_RootAfterCreate ==
    (last.op = "create_database" /\ last.err = "ok") =>
        /\ Len(tree) = 1
        /\ tree[1].name = "roots"
        /\ tree[1].node_type
        /\ tree[1].parent_guid = None
        /\ tree[1].id_no = 0
        /\ Len(tree[1].guid) = 36
        /\ DOMAIN folder = {tree[1].guid}
        /\ folder[tree[1].guid] = tree[1].date_added
        /\ DOMAIN url = {}
        /\ files[db_name] = Content(tree, folder, url)

\* a store has just been created at the second second of the clock
C13_Witness ==
    /\ last.op = "create_database"
    /\ last.err = "ok"
    /\ now = 1
    /\ Len(tree) = 1

(* ----------------------------------------------------------------------- *)
\* C14: the root is never renamed through update_node: in every reachable
\* state the node with absent parent_guid is named "roots".
C14_RootNamedRoots ==
    \A i \in RootRows(tree) : tree[i].name = "roots"
(* ----------------------------------------------------------------------- *)
\* C15: after a successful update_node(old, {name: new}) of a node of the
\* tree to another name, the node is resolvable under the new name only:
\* get_children, get_node and delete_node of the old name fail with
\* NodeNotExists, and get_node(new) returns the guid the node had before
\* the rename.
C15_RenameResolves ==
    [][(last'.op = "update_node" /\ last'.err = "ok") =>
         \A old \in NamesOf(tree), a \in UpdateAttrs :
            (Has(a, "name") /\ a["name"] # old) =>
               \/ /\ get_children(tree', row_factory', old).err = "NodeNotExists"
                  /\ node_dict(tree', folder', url', row_factory', old).err = "NodeNotExists"
                  /\ LET res_dict == node_dict(tree', folder', url', row_factory', a["name"])
                     IN  /\ res_dict.err = "ok"
                         /\ res_dict.value[1].guid = tree[fetchone(tree, old)].guid
               \/ ~update_node(old, a)]_vars
(* ----------------------------------------------------------------------- *)
\* C16: update_node on a Url node with any subset of the keys url, icon,
\* keywords writes the incoming value for each key present and keeps the
\* stored value for each key absent; the node's own date_added, guid and
\* id_no are unchanged.
C16_UrlMerge ==
    [][last'.op = "update_node" =>
         \A n \in NamesOf(tree), a \in UrlUpdates :
            ~tree[fetchone(tree, n)].node_type =>
               \/ LET i == fetchone(tree, n)
                      g == tree[i].guid
                  IN  /\ tree'[i] = tree[i]
                      /\ \A k \in DOMAIN a : g \in DOMAIN url' /\ url'[g][k] = a[k]
                      /\ \A k \in {"url", "icon", "keywords"} \ DOMAIN a :
                            g \in DOMAIN url => (g \in DOMAIN url' /\ url'[g][k] = url[g][k])
               \/ ~update_node(n, a)]_vars
(* ----------------------------------------------------------------------- *)
\* C17: update_node(name, {}) with an empty attribute mapping changes
\* nothing in the store for any name, existing or not: no node attribute
\* changes and the parent's date_modified is not stamped.
C17_EmptyUpdateNoop ==
    [][last'.op = "update_node" =>
         \A n \in Names :
            \/ last'.err = "ok" /\ StoreUnchanged
            \/ ~update_node(n, EmptyDict)]_vars

\* an update_node has just returned while a transaction is still open and
\* the parent of a node keeps a date_modified older than the clock: a
\* non-empty update_node that returns has committed
C17_Witness ==
    /\ last.op = "update_node"
    /\ last.err = "ok"
    /\ files[db_name].tree # tree
    /\ \E i \in 1..Len(tree) :
          tree[i].parent_guid \in DOMAIN folder /\ folder[tree[i].parent_guid] # isoformat(now)
(* ----------------------------------------------------------------------- *)
\* C18: add_node followed by get_node of the same name returns, for each
\* field, the supplied value when it was given (guid, date_added and
\* date_modified only when non-empty; id_no, url, icon, keywords whenever
\* present) and otherwise the default: a fresh 36-character guid, id_no 0,
\* date_added = now, date_modified = the resolved date_added, url, icon,
\* keywords = the empty string; parent_guid is the guid of the node named
\* parent_name and a new Folder has children = [].
\* is d what get_node is to return for the node added with a and node_type
C18_Expected(d, a, node_type) ==
    /\ d.name = a["name"]
    /\ IF HasValue(a, "guid") THEN d.guid = a["guid"]
       ELSE Len(d.guid) = 36 /\ d.guid \notin GuidsOf(tree)
    /\ d.id_no = IF Has(a, "id_no") THEN a["id_no"] ELSE 0
    /\ d.date_added = IF HasValue(a, "date_added") THEN a["date_added"] ELSE isoformat(now)
    /\ d.parent_guid = tree[fetchone(tree, a["parent_name"])].guid
    /\ IF node_type
       THEN /\ DOMAIN d = {"guid", "parent_guid", "id_no", "name", "date_added",
                           "date_modified", "children"}
            /\ d.date_modified = IF HasValue(a, "date_modified")
                                 THEN a["date_modified"] ELSE d.date_added
            /\ d.children = <<>>
       ELSE /\ DOMAIN d = {"guid", "parent_guid", "id_no", "name", "date_added",
                           "url", "icon", "keywords"}
            /\ \A k \in {"url", "icon", "keywords"} : d[k] = IF Has(a, k) THEN a[k] ELSE ""

C18_AddThenGet ==
    [][(last'.op = "add_node" /\ last'.err = "ok") =>
         \A a \in SuppliedAdds, node_type \in BOOLEAN :
            \/ ~add_node(a, node_type)
            \/ LET res_dict == node_dict(tree', folder', url', row_factory', a["name"])
               IN  res_dict.err = "ok" /\ C18_Expected(res_dict.value[1], a, node_type)]_vars
(* ----------------------------------------------------------------------- *)
\* C19: for every existing node n, get_children(n) returns (false, empty)
\* when n is a Url, and when n is a Folder returns (true, L) where L lists
\* exactly the names of the nodes whose parent_guid is n's guid, each once,
\* in the order in which those nodes were added.
\* does L list the names of the rows of t under g, each once, in the order
\* of their insertion (the order of the rows of t)
C19_ListsChildren(L, t, g) ==
    /\ {L[p] : p \in 1..Len(L)} = ChildSet(t, g)
    /\ Len(L) = Cardinality({i \in 1..Len(t) : t[i].parent_guid = g})
    /\ \A p, q \in 1..Len(L) : p < q => fetchone(t, L[p]) < fetchone(t, L[q])

C19_GetChildren ==
    [][last'.op = "get_children" =>
         \A n \in NamesOf(tree) :
            \/ ~call_get_children(n)
            \/ /\ last'.err = "ok"
               /\ Len(ret') = 1
               /\ LET r == tree[fetchone(tree, n)] IN
                  IF r.node_type
                  THEN ret'[1][1] = TRUE /\ C19_ListsChildren(ret'[1][2], tree, r.guid)
                  ELSE ret'[1][1] = FALSE /\ ret'[1][2] = <<>>]_vars

(* ----------------------------------------------------------------------- *)
\* C20: get_node on an existing Folder returns exactly the keys guid,
\* parent_guid, id_no, name, date_added, date_modified and children, the
\* children being the list get_children gives; on an existing Url it
\* returns exactly guid, parent_guid, id_no, name, date_added, url, icon,
\* keywords, with no children key; neither result holds node_id or
\* node_type.
C20_GetNodeKeys ==
    [][last'.op = "get_node" =>
         \A n \in NamesOf(tree) :
            \/ ~get_node(n)
            \/ /\ last'.err = "ok"
               /\ Len(ret') = 1
               /\ IF tree[fetchone(tree, n)].node_type
                  THEN /\ DOMAIN ret'[1] = {"guid", "parent_guid", "id_no", "name",
                                            "date_added", "date_modified", "children"}
                       /\ ret'[1].children = get_children(tree, row_factory, n).children
                  ELSE DOMAIN ret'[1] = {"guid", "parent_guid", "id_no", "name",
                                         "date_added", "url", "icon", "keywords"}]_vars
(* ----------------------------------------------------------------------- *)
\* sequence t without its row i
Removed(t, i) == [k \in 1..(Len(t) - 1) |-> IF k < i THEN t[k] ELSE t[k + 1]]
\* extension table ext without the row of guid g
Dropped(ext, g) == [h \in (DOMAIN ext) \ {g} |-> ext[h]]

\* C21: after a successful delete_node(n) the main row of n and its folder
\* or url extension row are gone, n is not among the children of its parent,
\* and every other main row and extension row is as it was.
C21_DeleteRemoves ==
    [][(last'.op = "delete_node" /\ last'.err = "ok") =>
         \A n \in Names :
            \/ ~delete_node(n)
            \/ LET i == fetchone(tree, n)
                   g == tree[i].guid
               IN  /\ n \notin NamesOf(tree')
                   /\ g \notin DOMAIN folder' \cup DOMAIN url'
                   /\ n \notin ChildSet(tree', tree[i].parent_guid)
                   /\ tree' = Removed(tree, i)
                   /\ folder' = Dropped(folder, g)
                   /\ url' = Dropped(url, g)]_vars

\* a node has just been deleted from a store that keeps other nodes, a Url
\* among them
C21_Witness ==
    /\ last.op = "delete_node"
    /\ last.err = "ok"
    /\ Len(tree) >= 2
    /\ DOMAIN url # {}

(* ----------------------------------------------------------------------- *)
\* is n the name of a row of t that no row names as its parent
Childless(t, n) ==
    \E i \in 1..Len(t) : /\ t[i].name = n
                         /\ \A j \in 1..Len(t) : t[j].parent_guid # t[i].guid

\* C22: deletion is leaf-first.  In a chain parent -> folderA -> urlB,
\* delete_node(folderA) is rejected and changes nothing while urlB exists;
\* delete_node of a node without children (urlB, and folderA once urlB is
\* gone) succeeds and takes exactly that name out of the children of its
\* parent, so that the parent lists what it listed before folderA was added.
C22_LeafFirst ==
    [][last'.op = "delete_node" =>
         \A n \in NamesOf(tree) :
            \/ ~delete_node(n)
            \/ /\ NonEmptyFolder(tree, n) => last'.err # "ok" /\ StoreUnchanged
               /\ Childless(tree, n) =>
                    /\ last'.err = "ok"
                    /\ LET pg == tree[fetchone(tree, n)].parent_guid
                       IN  ChildSet(tree', pg) = ChildSet(tree, pg) \ {n}]_vars

(* ----------------------------------------------------------------------- *)
\* C23: removal cascades along parent_guid.  Whenever delete_node removes a
\* main row, no row that stays names the removed node as its parent (the
\* rows below the removed node are removed with it).
C23_CascadeOnParent ==
    [][last'.op = "delete_node" =>
         \A i \in 1..Len(tree) :
            tree[i].guid \notin GuidsOf(tree') =>
               \A j \in 1..Len(tree') : tree'[j].parent_guid # tree[i].guid]_vars

(* ----------------------------------------------------------------------- *)
\* C24: every successful add_node, update_node and delete_node has committed
\* when it returns, so that after any sequence of successful mutations the
\* file of the connected store holds exactly the rows the connection shows,
\* and closing the connection and opening the file again with open_database
\* shows the same nodes and attributes.  Stated by induction on the
\* sequence: a store just created or opened is saved; a successful add_node,
\* update_node or delete_node on a saved store leaves it saved; and an
\* open_database of a saved store changes no row.
\* the file of the connected store holds what the connection shows
C24_Saved ==
    /\ conn # None
    /\ files[db_name] = Content(tree, folder, url)

C24_CommitsBeforeReturn ==
    [][/\ (last'.op \in {"create_database", "open_database"} /\ last'.err = "ok")
            => C24_Saved'
       /\ (/\ C24_Saved
           /\ last'.op \in {"add_node", "update_node", "delete_node"}
           /\ last'.err = "ok")
            => C24_Saved'
       /\ (C24_Saved /\ open_database(db_name))
            => /\ last'.err = "ok"
               /\ tree' = tree
               /\ folder' = folder
               /\ url' = url]_vars

\* the store has been opened again after a successful add_node: it shows
\* the added node below the root with the extension row add_node gave it
C24_Witness ==
    /\ last.op = "open_database"
    /\ last.err = "ok"
    /\ C24_Saved
    /\ \E i \in 1..Len(tree) :
          /\ tree[i].parent_guid \in DOMAIN folder
          /\ tree[i].guid \in DOMAIN folder \cup DOMAIN url

(* ----------------------------------------------------------------------- *)
\* the header fields of a main row
Header(r) == [guid |-> r.guid, parent_guid |-> r.parent_guid, id_no |-> r.id_no,
              date_added |-> r.date_added, node_type |-> r.node_type]

\* C25: no add_node, update_node or delete_node changes the guid,
\* parent_guid, id_no, date_added or Folder/Url type of a node that stays in
\* the store, whatever keys the attrs of update_node hold.  (add_node
\* appends a row, update_node writes rows in place, delete_node takes rows
\* out: a node that stays is the row at the same place, or for delete_node
\* a row found unchanged among the old ones.)
C25_HeaderImmutable ==
    [][/\ last'.op \in {"add_node", "update_node"} =>
            /\ Len(tree') >= Len(tree)
            /\ \A i \in 1..Len(tree) : Header(tree'[i]) = Header(tree[i])
       /\ last'.op = "delete_node" =>
            \A j \in 1..Len(tree') : \E i \in 1..Len(tree) : tree'[j] = tree[i]]_vars

\* update_node has just renamed to "b" the node that was added as "a" with
\* id_no 7
C25_Witness ==
    /\ last.op = "update_node"
    /\ last.err = "ok"
    /\ \E i \in 1..Len(tree) : tree[i].name = "b" /\ tree[i].id_no = 7

(* ----------------------------------------------------------------------- *)
\* C26: at most one connection is open in every state; a create_database or
\* open_database that succeeds has closed the connection that was open,
\* and leaves one connection open, db_name at the path it was given, and the
\* cursor on the new connection.
C26_Switched ==
    (last'.op \in {"create_database", "open_database"} /\ last'.err = "ok") =>
        \E name \in Paths :
            /\ create_database(name) \/ open_database(name)
            /\ connections' = 1
            /\ db_name' = name
            /\ conn' = name
            /\ cur' = conn'

C26_OneConnection == [](connections <= 1) /\ [][C26_Switched]_vars

\* the second store has just been opened while the file of the first exists
C26_Witness ==
    /\ last.op = "open_database"
    /\ last.err = "ok"
    /\ db_name = OtherPath
    /\ isfile(MainPath)

(* ----------------------------------------------------------------------- *)
\* the connection, db_name and the store files are as they were
SessionUnchanged == UNCHANGED <<conn, db_name, cur, connections, files, tree, folder, url>>

\* C27: create_database on a path where a file exists fails with
\* FileExistsError, open_database and delete_database on a path without a
\* file fail with FileNotFoundError, and each of these failures leaves the
\* open connection, db_name and every store file as they were.
C27_RefusalChangesNothing ==
    [][last'.op \in {"create_database", "open_database", "delete_database"} =>
         \A name \in Paths :
            /\ (isfile(name) /\ create_database(name)) =>
                  last'.err = "FileExistsError" /\ SessionUnchanged
            /\ (~isfile(name) /\ (open_database(name) \/ delete_database(name))) =>
                  last'.err = "FileNotFoundError" /\ SessionUnchanged]_vars

\* create_database has just been refused on the path of an existing file
\* while the other store is connected
C27_Witness ==
    /\ last.op = "create_database"
    /\ last.err = "FileExistsError"
    /\ conn # None
    /\ \E name \in Paths \ {conn} : isfile(name)

(* ----------------------------------------------------------------------- *)
\* C28: after delete_database(path) has succeeded no file exists at path, no
\* connection is held and db_name is empty; an open_database(path) made
\* while no connection is held and no file is at path fails with
\* FileNotFoundError.
C28_Disconnected ==
    (last.op = "delete_database" /\ last.err = "ok") =>
        conn = None /\ db_name = "" /\ connections = 0

C28_FileGone ==
    \A name \in Paths :
        /\ (last'.op = "delete_database" /\ last'.err = "ok" /\ delete_database(name)) =>
              ~files'[name].exists
        /\ (last'.op = "open_database" /\ conn = None /\ ~isfile(name)
              /\ open_database(name)) =>
              last'.err = "FileNotFoundError" /\ conn' = None

C28_DeleteDatabase == [](C28_Disconnected) /\ [][C28_FileGone]_vars

\* a store has just been deleted while the file of the other one exists
C28_Witness ==
    /\ last.op = "delete_database"
    /\ last.err = "ok"
    /\ \E name \in Paths : isfile(name)
    /\ \E name \in Paths : ~isfile(name)

(* ----------------------------------------------------------------------- *)
\* C29: foreign-key enforcement is on in every state in which a connection
\* is open, whether create_database or open_database made the connection,
\* and every delete_node that succeeds, after a reopen as well, removes the
\* extension row of the node it deletes.
C29_ExtensionGoes ==
    (last'.op = "delete_node" /\ last'.err = "ok") =>
        \A n \in Names :
            \/ ~delete_node(n)
            \/ tree[fetchone(tree, n)].guid \notin DOMAIN folder' \cup DOMAIN url'

C29_ForeignKeysOn == [](conn # None => foreign_keys) /\ [][C29_ExtensionGoes]_vars

\* a store holding a Url node and its extension row has just been opened
\* with open_database, enforcement on
C29_Witness ==
    /\ last.op = "open_database"
    /\ last.err = "ok"
    /\ foreign_keys
    /\ \E i \in 1..Len(tree) : ~tree[i].node_type /\ tree[i].guid \in DOMAIN url

(* ----------------------------------------------------------------------- *)
\* C30: every import walk calls add_node for a folder before it calls
\* add_node for any node below that folder: a node whose add_node call has
\* been made has a parent that is the root image or a node whose add_node
\* call was made earlier.
C30_ParentBeforeChild ==
    \A k \in 1..Len(walk.calls) :
        LET parent == walk.image[walk.calls[k]].parent IN
        parent # 0 => \E j \in 1..(k - 1) : walk.calls[j] = parent

(* ----------------------------------------------------------------------- *)
\* C31: when json_to_sqlite has returned (True, ''), the connection closed, every
\* folder and every url of the source tree image is a row of the
\* destination store.
C31_EveryNodePersisted ==
    (walk.kind = "json" /\ walk.res = <<TRUE>>) =>
        \A n \in 1..MaxImage : \E k \in 1..Len(walk.rows) : walk.rows[k] = n

(* ----------------------------------------------------------------------- *)
\* C35: in every state each row of tree has exactly one extension row, in
\* folder if its node_type (the isFolder it was added with) is true and in
\* url otherwise, and the node_id of every extension row is the guid of a
\* row of tree.
C35_OneExtensionRow ==
    /\ \A i \in 1..Len(tree) :
          IF tree[i].node_type
          THEN tree[i].guid \in DOMAIN folder /\ tree[i].guid \notin DOMAIN url
          ELSE tree[i].guid \in DOMAIN url /\ tree[i].guid \notin DOMAIN folder
    /\ (DOMAIN folder \cup DOMAIN url) \subseteq GuidsOf(tree)

(* ----------------------------------------------------------------------- *)
\* the guids reached from guid g by following parent_guid k times or fewer,
\* g itself left out
RECURSIVE Above(_, _, _)
Above(t, g, k) ==
    IF k = 0 THEN {}
    ELSE LET up == {t[i].parent_guid : i \in {j \in 1..Len(t) : t[j].guid = g}} \ {None}
         IN  up \cup UNION {Above(t, h, k - 1) : h \in up}

\* C36: the parent relation is acyclic in every reachable state: following
\* parent_guid from a node never comes back to that node.
C36_Acyclic ==
    \A i \in 1..Len(tree) : tree[i].guid \notin Above(tree, tree[i].guid, Len(tree))

(* ----------------------------------------------------------------------- *)
\* C37: when update_node has renamed a Folder, get_children of the new name
\* returns the child names, in the order, that get_children of the old name
\* returned before, and an add_node with parent_name = new name resolves
\* the guid the Folder had before the rename.  (update_node writes the rows
\* of tree in place: the renamed Folder is the row whose name has changed.)
C37_RenameKeepsChildren ==
    [][(last'.op = "update_node" /\ last'.err = "ok" /\ Len(tree') = Len(tree)) =>
         \A i \in 1..Len(tree) :
            \* row i is the Folder the call renamed
            (tree[i].node_type /\ tree'[i].name # tree[i].name) =>
               LET before == get_children(tree, row_factory, tree[i].name)
                   after  == get_children(tree', row_factory', tree'[i].name)
               IN  /\ before.err = "ok"
                   /\ after.err = "ok"
                   /\ after.res
                   /\ after.children = before.children
                   /\ unpack(tree'[fetchone(tree', tree'[i].name)], row_factory')
                        = tree[i].guid]_vars

\* update_node has succeeded and the root Folder, renamed, holds a child
C37_Witness ==
    /\ last.op = "update_node"
    /\ last.err = "ok"
    /\ \E i \in 1..Len(tree) :
          /\ tree[i].parent_guid = None
          /\ tree[i].name # "roots"
          /\ ChildSet(tree, tree[i].guid) # {}

(* ----------------------------------------------------------------------- *)
\* C39: a delete_database(p) that succeeds closes the connection that is
\* open and clears db_name also when the open store is at another path than
\* p; the file of that other store stays in place and only the file at p
\* is removed.
C39_DeletesNamedFile ==
    [][(last'.op = "delete_database" /\ last'.err = "ok") =>
         \A p \in Paths :
            (conn # p /\ delete_database(p)) =>
               /\ conn' = None
               /\ db_name' = ""
               /\ connections' = 0
               /\ ~files'[p].exists
               /\ \A q \in Paths \ {p} : files'[q] = files[q]]_vars

\* the second store has been deleted while the first was the connected one
\* (the last cursor was made on the first): the file of the first is in
\* place and no connection is held
C39_Witness ==
    /\ last.op = "delete_database"
    /\ last.err = "ok"
    /\ isfile(MainPath)
    /\ ~isfile(OtherPath)
    /\ conn = None
    /\ cur = MainPath

(* ----------------------------------------------------------------------- *)
\* C32: ChromeToTree.convert rejects a malformed source: when the source it
\* loaded lacks one of the top-level keys checksum, roots, version, it
\* returns (False, message) and adds no node to the tree; the import walk
\* is entered only with all three keys present.
C32_RejectsMalformed ==
    (walk.kind = "chrome" /\ walk.keys # ChromeKeys) =>
        /\ walk.res = <<FALSE>>
        /\ walk.err = "ok"
        /\ walk.frames = <<>>
        /\ walk.calls = <<>>

(* ----------------------------------------------------------------------- *)
\* C33: during a Chrome import every node gets a name not used in the tree
\* so far: the name of the source when that is not used yet, else the first
\* free of name(1), name(2), ...; the names of the tree are pairwise
\* distinct.
C33_NamesDistinct ==
    walk.kind = "chrome" =>
        /\ Len(walk.assigned) = Len(walk.calls)
        /\ \A k \in 1..Len(walk.assigned) :
              LET used == {"roots"} \cup {walk.assigned[j] : j \in 1..(k - 1)}
                  name == walk.names[walk.calls[k]]
              IN  /\ walk.assigned[k] \notin used
                  /\ name \notin used => walk.assigned[k] = name
                  /\ name \in used =>
                        \E i \in 1..k :
                            /\ walk.assigned[k] = name_i(name, i)
                            /\ \A j \in 1..(i - 1) : name_i(name, j) \in used

\* an import has ended in which a node named x, met after x(1) and x, was
\* given the name x(2)
C33_Witness ==
    /\ walk.kind = "chrome"
    /\ walk.exit = 0
    /\ \E k \in 1..Len(walk.assigned) :
          walk.assigned[k] = "x(2)" /\ walk.names[walk.calls[k]] = "x"

(* ----------------------------------------------------------------------- *)
\* C34: a run that has ended has exit code 1 whenever the source file was
\* missing, the user declined the overwrite or the conversion reported
\* failure, and it has exit code 0 only when the selected conversion was
\* carried out and reported success.
C34_ExitCodes ==
    walk.exit # -1 =>
        /\ (walk.missing \/ walk.declined \/ walk.res = <<FALSE>>) => walk.exit = 1
        /\ walk.exit = 0 => walk.res = <<TRUE>>

(* ----------------------------------------------------------------------- *)
\* C38: a run that has ended and in which main removed an existing
\* destination file has written a new destination file or has exit code 1,
\* whatever the --from/--to pair.
C38_DestinationNotLost ==
    (walk.exit # -1 /\ walk.removed) => (walk.destination = "new" \/ walk.exit = 1)

====
